---- MODULE Spec2Model ----
(***************************************************************************)
(* Kuhn poker engine of pgx (src/pgx/kuhn_poker.py): the State record,     *)
(* _init, _step, _get_unit_reward and _observe, as a state machine whose   *)
(* steps are calls of _step and _observe on the current State.             *)
(***************************************************************************)
EXTENDS Integers, Sequences, FiniteSets, TLC

(* ---- bounds ---- *)
\* longest sequence of _step calls that is explored
MaxSteps == 4

(* ---- constants of the source ---- *)
CALL == 0
BET == 1
FOLD == 2
CHECK == 3
\* default of State._last_action: no action taken yet
NO_ACTION == -1
\* default of State.observation until _observe has been called
NO_PLAYER == -1

Actions == {CALL, BET, FOLD, CHECK}
Players == {0, 1}
Ranks == {0, 1, 2}

\* a 2-slot array indexed by seat
Pair(a, b) == (0 :> a @@ 1 :> b)
\* a 4-slot boolean array indexed by action id: jnp.bool_([c, b, f, k])
Mask(c, b, f, k) == (CALL :> (c = 1) @@ BET :> (b = 1) @@ FOLD :> (f = 1) @@ CHECK :> (k = 1))
\* int8 arithmetic wraps
Int8(x) == ((x + 128) % 256) - 128

VARIABLES current_player, _cards, _last_action, _pot, legal_action_mask,
          terminated, rewards, hist, obs, obs_player

vars == <<current_player, _cards, _last_action, _pot, legal_action_mask,
          terminated, rewards, hist, obs, obs_player>>

\* the State value the variables hold
State ==
    [current_player |-> current_player, _cards |-> _cards,
     _last_action |-> _last_action, _pot |-> _pot,
     legal_action_mask |-> legal_action_mask,
     terminated |-> terminated, rewards |-> rewards]

(* ---- _init ---- *)
\* the six ordered deals jax.random.choice draws from
\* mutant: the deck is sampled with replacement
InitCards_WithReplacement ==
    {Pair(a, b) : a \in {0, 1, 2}, b \in {0, 1, 2}}

InitCards ==
    {Pair(0, 1), Pair(0, 2), Pair(1, 0), Pair(1, 2), Pair(2, 0), Pair(2, 1)}

\* mutant: the mask is left at the default of State, all four actions
_init_DefaultMask(first, deal) ==
    [current_player |-> first, _cards |-> deal,
     _last_action |-> NO_ACTION, _pot |-> Pair(0, 0),
     legal_action_mask |-> Mask(1, 1, 1, 1),
     terminated |-> FALSE, rewards |-> Pair(0, 0)]

_init(first, deal) ==
    [current_player |-> first, _cards |-> deal,
     _last_action |-> NO_ACTION, _pot |-> Pair(0, 0),
     legal_action_mask |-> Mask(0, 1, 0, 1),
     terminated |-> FALSE, rewards |-> Pair(0, 0)]

(* ---- _step ---- *)
\* mutant: the loser's entry is left at 0
_get_unit_reward_NoLoser(s) ==
    IF s._cards[s.current_player] > s._cards[1 - s.current_player]
    THEN [Pair(0, 0) EXCEPT ![s.current_player] = 1]
    ELSE [Pair(0, 0) EXCEPT ![1 - s.current_player] = 1]

\* mutant: the comparison is reversed
_get_unit_reward_Reversed(s) ==
    IF s._cards[s.current_player] < s._cards[1 - s.current_player]
    THEN [Pair(-1, -1) EXCEPT ![s.current_player] = 1]
    ELSE [Pair(-1, -1) EXCEPT ![1 - s.current_player] = 1]

_get_unit_reward(s) ==
    IF s._cards[s.current_player] > s._cards[1 - s.current_player]
    THEN [Pair(-1, -1) EXCEPT ![s.current_player] = 1]
    ELSE [Pair(-1, -1) EXCEPT ![1 - s.current_player] = 1]

\* mutant: a Call adds nothing to the pot
PotUpdate_OnlyBet(s, action) ==
    IF action = BET
    THEN [s._pot EXCEPT ![s.current_player] = Int8(@ + 1)]
    ELSE s._pot

\* mutant: the chip is booked on the other seat
PotUpdate_WrongSeat(s, action) ==
    IF action = BET \/ action = CALL
    THEN [s._pot EXCEPT ![1 - s.current_player] = Int8(@ + 1)]
    ELSE s._pot

PotUpdate(s, action) ==
    IF action = BET \/ action = CALL
    THEN [s._pot EXCEPT ![s.current_player] = Int8(@ + 1)]
    ELSE s._pot

\* mutant: the +1 goes to the folding seat
FoldRule_WrongSeat(s, action) ==
    IF action = FOLD
    THEN [terminated |-> TRUE,
          reward |-> [Pair(-1, -1) EXCEPT ![s.current_player] = 1]]
    ELSE [terminated |-> FALSE, reward |-> Pair(0, 0)]

\* mutant: without a fold the reward starts from the (-1, -1) base
FoldRule_BaseKept(s, action) ==
    IF action = FOLD
    THEN [terminated |-> TRUE,
          reward |-> [Pair(-1, -1) EXCEPT ![1 - s.current_player] = 1]]
    ELSE [terminated |-> FALSE, reward |-> Pair(-1, -1)]

FoldRule(s, action) ==
    IF action = FOLD
    THEN [terminated |-> TRUE,
          reward |-> [Pair(-1, -1) EXCEPT ![1 - s.current_player] = 1]]
    ELSE [terminated |-> FALSE, reward |-> Pair(0, 0)]

\* mutant: the showdown after a call is not doubled
BetCallRule_NoDouble(s, action, prev) ==
    IF s._last_action = BET /\ action = CALL
    THEN [terminated |-> TRUE, reward |-> _get_unit_reward(s)]
    ELSE prev

BetCallRule(s, action, prev) ==
    IF s._last_action = BET /\ action = CALL
    THEN [terminated |-> TRUE,
          reward |-> [p \in Players |-> _get_unit_reward(s)[p] * 2]]
    ELSE prev

\* mutant: every Check ends the hand
CheckCheckRule_AnyCheck(s, action, prev) ==
    IF action = CHECK
    THEN [terminated |-> TRUE, reward |-> _get_unit_reward(s)]
    ELSE prev

\* mutant: the previous action is compared with the wrong constant
CheckCheckRule_LastBet(s, action, prev) ==
    IF s._last_action = BET /\ action = CHECK
    THEN [terminated |-> TRUE, reward |-> _get_unit_reward(s)]
    ELSE prev

CheckCheckRule(s, action, prev) ==
    IF s._last_action = CHECK /\ action = CHECK
    THEN [terminated |-> TRUE, reward |-> _get_unit_reward(s)]
    ELSE prev

\* mutant: the Bet and Fold rows of the table are swapped
LegalActionAfter_RowsSwapped(action) ==
    CASE action = CALL -> Mask(0, 0, 0, 0)
      [] action = BET -> Mask(0, 0, 0, 0)
      [] action = FOLD -> Mask(1, 0, 1, 0)
      [] action = CHECK -> Mask(0, 1, 0, 1)

\* mutant: after Check every action is allowed
LegalActionAfter_AllAfterCheck(action) ==
    CASE action = CALL -> Mask(0, 0, 0, 0)
      [] action = BET -> Mask(1, 0, 1, 0)
      [] action = FOLD -> Mask(0, 0, 0, 0)
      [] action = CHECK -> Mask(1, 1, 1, 1)

\* mutant: a Bet may be answered by another Bet
LegalActionAfter_ReRaise(action) ==
    CASE action = CALL -> Mask(0, 0, 0, 0)
      [] action = BET -> Mask(1, 1, 1, 0)
      [] action = FOLD -> Mask(0, 0, 0, 0)
      [] action = CHECK -> Mask(0, 1, 0, 1)

LegalActionAfter(action) ==
    CASE action = CALL -> Mask(0, 0, 0, 0)
      [] action = BET -> Mask(1, 0, 1, 0)
      [] action = FOLD -> Mask(0, 0, 0, 0)
      [] action = CHECK -> Mask(0, 1, 0, 1)

\* mutant: the turn does not pass on the step taken from a finished hand
NextPlayer_KeptWhenTerminated(s) ==
    IF s.terminated THEN s.current_player ELSE 1 - s.current_player

NextPlayer(s) == 1 - s.current_player

\* mutant: an action outside the mask returns the state as it is
_step_Validating(s, action) ==
    IF ~s.legal_action_mask[action] THEN s
    ELSE
    LET pot == PotUpdate(s, action)
        tr == CheckCheckRule(s, action,
                  BetCallRule(s, action, FoldRule(s, action)))
    IN  [current_player |-> NextPlayer(s),
         _cards |-> s._cards,
         _last_action |-> action,
         _pot |-> pot,
         legal_action_mask |-> LegalActionAfter(action),
         terminated |-> tr.terminated,
         rewards |-> tr.reward]

\* mutant: the opponent's card is the one encoded
_observe_OpponentCard(s, player_id) ==
    [[[[i \in 0..6 |-> FALSE] EXCEPT ![s._cards[1 - player_id]] = TRUE]
        EXCEPT ![3 + s._pot[player_id]] = TRUE]
        EXCEPT ![5 + s._pot[1 - player_id]] = TRUE]

\* mutant: the own chips are those of the player to move, as the docstring
\* of _observe words it
_observe_ByCurrentPlayer(s, player_id) ==
    [[[[i \in 0..6 |-> FALSE] EXCEPT ![s._cards[player_id]] = TRUE]
        EXCEPT ![3 + s._pot[s.current_player]] = TRUE]
        EXCEPT ![5 + s._pot[1 - player_id]] = TRUE]

\* mutant: the opponent's chips are those of the seat not to move
_observe_OpponentByTurn(s, player_id) ==
    [[[[i \in 0..6 |-> FALSE] EXCEPT ![s._cards[player_id]] = TRUE]
        EXCEPT ![3 + s._pot[player_id]] = TRUE]
        EXCEPT ![5 + s._pot[1 - s.current_player]] = TRUE]

\* mutant: a finished hand is returned as it is, with zero rewards
_step_Latched(s, action) ==
    IF s.terminated THEN [s EXCEPT !.rewards = Pair(0, 0)]
    ELSE
    LET pot == PotUpdate(s, action)
        tr == CheckCheckRule(s, action,
                  BetCallRule(s, action, FoldRule(s, action)))
    IN  [current_player |-> NextPlayer(s),
         _cards |-> s._cards,
         _last_action |-> action,
         _pot |-> pot,
         legal_action_mask |-> LegalActionAfter(action),
         terminated |-> tr.terminated,
         rewards |-> tr.reward]

_step(s, action) ==
    LET pot == PotUpdate(s, action)
        tr == CheckCheckRule(s, action,
                  BetCallRule(s, action, FoldRule(s, action)))
    IN  [current_player |-> NextPlayer(s),
         _cards |-> s._cards,
         _last_action |-> action,
         _pot |-> pot,
         legal_action_mask |-> LegalActionAfter(action),
         terminated |-> tr.terminated,
         rewards |-> tr.reward]

(* ---- _observe ---- *)
\* obs.at[i].set(TRUE): a negative index counts from the end, an index
\* outside the array is dropped
AtSetTrue(o, i) ==
    IF i \in 0..6 THEN [o EXCEPT ![i] = TRUE]
    ELSE IF i \in -7..-1 THEN [o EXCEPT ![i + 7] = TRUE]
    ELSE o

ZeroObs == [i \in 0..6 |-> FALSE]

_observe(s, player_id) ==
    AtSetTrue(
        AtSetTrue(
            AtSetTrue(ZeroObs, s._cards[player_id]),
            3 + s._pot[player_id]),
        5 + s._pot[1 - player_id])

(* ---- the state machine ---- *)
Install(s) ==
    /\ current_player' = s.current_player
    /\ _cards' = s._cards
    /\ _last_action' = s._last_action
    /\ _pot' = s._pot
    /\ legal_action_mask' = s.legal_action_mask
    /\ terminated' = s.terminated
    /\ rewards' = s.rewards

Init ==
    \E first \in Players, deal \in InitCards :
        LET s == _init(first, deal)
        IN  /\ current_player = s.current_player
            /\ _cards = s._cards
            /\ _last_action = s._last_action
            /\ _pot = s._pot
            /\ legal_action_mask = s.legal_action_mask
            /\ terminated = s.terminated
            /\ rewards = s.rewards
            /\ hist = <<>>
            /\ obs = ZeroObs
            /\ obs_player = NO_PLAYER

\* _step called with any of the four action ids
StepAny(action) ==
    /\ Len(hist) < MaxSteps
    /\ Install(_step(State, action))
    /\ hist' = Append(hist, action)
    /\ UNCHANGED <<obs, obs_player>>

\* _step called by a caller that keeps to legal_action_mask
Step(action) ==
    /\ legal_action_mask[action]
    /\ StepAny(action)

Observe(player_id) ==
    /\ obs' = _observe(State, player_id)
    /\ obs_player' = player_id
    /\ UNCHANGED <<current_player, _cards, _last_action, _pot,
                   legal_action_mask, terminated, rewards, hist>>

Next ==
    \/ \E action \in Actions : Step(action)
    \/ \E player_id \in Players : Observe(player_id)

Spec == Init /\ [][Next]_vars

NextAny ==
    \/ \E action \in Actions : StepAny(action)
    \/ \E player_id \in Players : Observe(player_id)

SpecAny == Init /\ [][NextAny]_vars

\* _step called by a caller that keeps to the mask and stops calling once
\* the hand is over
Play(action) ==
    /\ ~terminated
    /\ Step(action)

NextPlay ==
    \/ \E action \in Actions : Play(action)
    \/ \E player_id \in Players : Observe(player_id)

\* the caller goes on with the hand as long as it is not over
SpecPlay ==
    Init /\ [][NextPlay]_vars /\ WF_vars(\E action \in Actions : Play(action))

(* ---- properties ---- *)
\* the set of actions a mask allows
LegalSet(m) == {a \in Actions : m[a]}

\* a call of _step with this action has just been made
Stepped(action) == hist' = Append(hist, action)

\* C1 (zero-sum): in every state reached by mask-legal steps, if terminated
\* is true then rewards[0] + rewards[1] = 0.
C1_ZeroSum == terminated => rewards[0] + rewards[1] = 0

C1_Witness == terminated /\ hist = <<BET, CALL>> /\ rewards[0] = 2

\* C2 (Bet-Call showdown): a step with Call from a state whose last action is
\* Bet returns a terminated state in which the seat holding the strictly
\* higher card has reward +2 and the other seat -2.
C2_BetCallShowdown ==
    [][(Stepped(CALL) /\ _last_action = BET) =>
        /\ terminated'
        /\ \A p \in Players :
              _cards[p] > _cards[1 - p] =>
                  rewards'[p] = 2 /\ rewards'[1 - p] = -2]_vars

C2_Witness ==
    /\ hist = <<CHECK, BET, CALL>>
    /\ _cards = Pair(1, 2)
    /\ terminated
    /\ rewards = Pair(-2, 2)

\* C3 (Check-Check showdown): a step with Check from a state whose last
\* action is Check returns a terminated state in which the seat holding the
\* strictly higher card has reward +1 and the other seat -1.
C3_CheckCheckShowdown ==
    [][(Stepped(CHECK) /\ _last_action = CHECK) =>
        /\ terminated'
        /\ \A p \in Players :
              _cards[p] > _cards[1 - p] =>
                  rewards'[p] = 1 /\ rewards'[1 - p] = -1]_vars

C3_Witness ==
    /\ hist = <<CHECK, CHECK>>
    /\ _cards = Pair(1, 2)
    /\ current_player = 0
    /\ terminated
    /\ rewards = Pair(-1, 1)

\* C4 (fold payoff): a step with Fold returns a terminated state with reward
\* -1 for the folding seat (the player to move before the step) and +1 for
\* the other seat, whatever the cards are.
C4_FoldPayoff ==
    [][Stepped(FOLD) =>
        /\ terminated'
        /\ rewards'[current_player] = -1
        /\ rewards'[1 - current_player] = 1]_vars

\* the folding seat (the one that moved last) holds the higher card
C4_Witness ==
    /\ hist = <<CHECK, BET, FOLD>>
    /\ terminated
    /\ _cards[1 - current_player] > _cards[current_player]
    /\ rewards[1 - current_player] = -1
\* C5 (information hiding): for each player p, replacing the opponent's card
\* cards[1-p] by any other card of a valid deal, all other fields equal,
\* leaves observe(state, p) the same.
C5_InformationHiding ==
    \A p \in Players : \A c \in Ranks \ {_cards[p]} :
        _observe([State EXCEPT !._cards[1 - p] = c], p) = _observe(State, p)

\* seat 0 has just been handed its observation while seat 1 holds the King
C5_Witness ==
    /\ obs_player = 0
    /\ obs = _observe(State, 0)
    /\ _cards[1] = 2
    /\ hist = <<CHECK, BET>>

\* C6 (mask totality): in every state reached by mask-legal steps in which
\* terminated is false, legal_action_mask has at least one action set.
C6_MaskTotality ==
    ~terminated => \E a \in Actions : legal_action_mask[a]

C6_Witness ==
    /\ ~terminated
    /\ hist = <<BET>>
    /\ LegalSet(legal_action_mask) = {CALL, FOLD}

\* C7 (mask table): the mask of the state _step returns depends only on the
\* action taken: {Call, Fold} after Bet, {Bet, Check} after Check, empty after
\* Call and after Fold; so Call and Fold are set only when last_action is Bet,
\* Bet and Check only when last_action is none or Check.
C7_MaskTable ==
    /\ [][/\ Stepped(BET) => LegalSet(legal_action_mask') = {CALL, FOLD}
          /\ Stepped(CHECK) => LegalSet(legal_action_mask') = {BET, CHECK}
          /\ Stepped(CALL) => LegalSet(legal_action_mask') = {}
          /\ Stepped(FOLD) => LegalSet(legal_action_mask') = {}]_vars
    /\ [](/\ (legal_action_mask[CALL] \/ legal_action_mask[FOLD]) =>
                _last_action = BET
          /\ (legal_action_mask[BET] \/ legal_action_mask[CHECK]) =>
                _last_action \in {NO_ACTION, CHECK})

\* the second Check has ended the hand and Bet and Check are still set
C7_Witness ==
    /\ hist = <<CHECK, CHECK>>
    /\ terminated
    /\ LegalSet(legal_action_mask) = {BET, CHECK}

\* C8 as stated (illegal actions are rejected): a call of _step with an action
\* that is not set in legal_action_mask produces no state with updated pot,
\* turn, mask or rewards.
C8_IllegalRejected ==
    [][\A a \in Actions :
        (Stepped(a) /\ ~legal_action_mask[a]) =>
            UNCHANGED <<current_player, _cards, _last_action, _pot,
                        legal_action_mask, terminated, rewards>>]_vars

\* C8 as amended (illegal actions are computed): a call of _step with an
\* action that is not set in legal_action_mask returns a next state like any
\* other call: the turn passes, last_action is the action, the mask follows
\* the table, the pot grows by 1 (int8) for the acting seat on Bet and Call,
\* terminated follows the Fold, Bet-Call and Check-Check rules and rewards
\* are zero unless terminated, zero-sum otherwise.
C8_IllegalComputed ==
    [][\A a \in Actions :
        (Stepped(a) /\ ~legal_action_mask[a]) =>
            /\ current_player' = 1 - current_player
            /\ _last_action' = a
            /\ LegalSet(legal_action_mask') =
                  (IF a = BET THEN {CALL, FOLD}
                   ELSE IF a = CHECK THEN {BET, CHECK} ELSE {})
            /\ _pot'[current_player] =
                  Int8(_pot[current_player]
                       + (IF a \in {BET, CALL} THEN 1 ELSE 0))
            /\ _pot'[1 - current_player] = _pot[1 - current_player]
            /\ terminated' = (a = FOLD \/ (a = CALL /\ _last_action = BET)
                              \/ (a = CHECK /\ _last_action = CHECK))
            /\ ~terminated' => rewards' = Pair(0, 0)
            /\ terminated' => rewards'[0] + rewards'[1] = 0]_vars

\* Call as the opening action: not in the mask, and yet computed
C8_Witness ==
    /\ hist = <<CALL>>
    /\ _last_action = CALL
    /\ _pot[1 - current_player] = 1
    /\ ~terminated

\* C9 (turn alternation): every call of _step returns a state whose
\* current_player is 1 - current_player of the input state, also on the step
\* that ends the hand.
C9_TurnAlternation ==
    [][\A a \in Actions :
        Stepped(a) => current_player' = 1 - current_player]_vars

C9_Witness ==
    /\ hist = <<BET, FOLD>>
    /\ terminated
    /\ current_player = 0

\* C10 (no ties): in every state cards[0] and cards[1] are distinct values of
\* {0, 1, 2}, and _step never changes cards.
C10_NoTies ==
    /\ [](/\ _cards[0] \in Ranks
          /\ _cards[1] \in Ranks
          /\ _cards[0] # _cards[1])
    /\ [][_cards' = _cards]_vars

C10_Witness ==
    /\ hist = <<CHECK, BET, CALL>>
    /\ terminated
    /\ _cards[0] > _cards[1]
    /\ rewards = Pair(2, -2)
\* C11 (rewards are zero unless terminated): in every state reached by
\* mask-legal steps, rewards = (0, 0) if terminated is false, and rewards is
\* one of (+1,-1), (-1,+1), (+2,-2), (-2,+2) if terminated is true.
C11_RewardsUnlessTerminated ==
    /\ ~terminated => rewards = Pair(0, 0)
    /\ terminated =>
          rewards \in {Pair(1, -1), Pair(-1, 1), Pair(2, -2), Pair(-2, 2)}

C11_Witness ==
    /\ hist = <<BET, FOLD>>
    /\ terminated
    /\ rewards \in {Pair(1, -1), Pair(-1, 1)}
    /\ _pot[current_player] = 1

\* C12 (initial state): every state _init returns has pot (0, 0), last_action
\* none, terminated false, rewards (0, 0) and mask exactly {Bet, Check}; the
\* states _init can return are exactly the 12 combinations of a first player
\* and an ordered deal of two distinct cards.
C12_InitialState ==
    LET deals == {Pair(a, b) : a \in Ranks, b \in Ranks} \
                     {Pair(a, a) : a \in Ranks}
        returned == {_init(first, deal) : first \in Players, deal \in InitCards}
    IN  /\ hist = <<>> =>
              /\ _pot = Pair(0, 0)
              /\ _last_action = NO_ACTION
              /\ ~terminated
              /\ rewards = Pair(0, 0)
              /\ LegalSet(legal_action_mask) = {BET, CHECK}
              /\ current_player \in Players
              /\ _cards \in deals
        /\ Cardinality(returned) = 12
        /\ {<<s.current_player, s._cards>> : s \in returned} = Players \X deals

C12_Witness ==
    /\ hist = <<>>
    /\ current_player = 1
    /\ _cards = Pair(2, 0)
    /\ obs_player = NO_PLAYER

C14_TerminationConditions ==
    [][\A a \in Actions :
        (Stepped(a) /\ ~terminated) =>
            LET fold == a = FOLD
                betCall == a = CALL /\ _last_action = BET
                checkCheck == a = CHECK /\ _last_action = CHECK
            IN  /\ terminated' <=> (fold \/ betCall \/ checkCheck)
                /\ ~(fold /\ betCall) /\ ~(fold /\ checkCheck)
                /\ ~(betCall /\ checkCheck)
                /\ (a = CHECK /\ _last_action = NO_ACTION) => ~terminated'
                /\ (a = BET /\ _last_action \in {NO_ACTION, CHECK}) =>
                      ~terminated']_vars

C14_Witness ==
    /\ hist = <<CHECK, BET>>
    /\ ~terminated
    /\ _last_action = BET
    /\ _pot[current_player] = 0

\* C15 (every hand ends): a play of mask-legal steps that goes on while
\* terminated is false reaches a terminated state, after 2 or 3 steps; the
\* complete plays are Check-Check, Bet-Call, Bet-Fold, Check-Bet-Call and
\* Check-Bet-Fold, and each of them can be played.
C15_EveryHandEnds ==
    /\ <>terminated
    /\ [](terminated =>
            /\ Len(hist) \in {2, 3}
            /\ hist \in {<<CHECK, CHECK>>, <<BET, CALL>>, <<BET, FOLD>>,
                         <<CHECK, BET, CALL>>, <<CHECK, BET, FOLD>>})
    /\ [](~terminated =>
            /\ hist \in {<<>>, <<CHECK>>, <<BET>>, <<CHECK, BET>>}
            /\ \A a \in Actions :
                  (ENABLED Play(a)) <=>
                      (a \in (IF hist \in {<<>>, <<CHECK>>}
                              THEN {BET, CHECK} ELSE {CALL, FOLD})))

C15_Witness ==
    /\ hist = <<CHECK, BET, FOLD>>
    /\ terminated
    /\ LegalSet(legal_action_mask) = {}
    /\ _pot[current_player] = 1

\* C16 (pot update and frame): a step with Bet or Call increases the pot
\* entry of the acting seat by exactly 1 and leaves the other entry unchanged;
\* a step with Fold or Check leaves both entries unchanged; last_action of the
\* returned state is the action taken.
C16_PotUpdate ==
    [][\A a \in Actions :
        Stepped(a) =>
            /\ _last_action' = a
            /\ a \in {BET, CALL} =>
                  /\ _pot'[current_player] = _pot[current_player] + 1
                  /\ _pot'[1 - current_player] = _pot[1 - current_player]
            /\ a \in {FOLD, CHECK} => _pot' = _pot]_vars

C16_Witness ==
    /\ hist = <<BET, CALL>>
    /\ _pot = Pair(1, 1)
    /\ _last_action = CALL
\* C17 (pot bound): in every state reached by mask-legal steps each pot entry
\* is 0 or 1, so the observation indices 3 + pot[p] and 5 + pot[1-p] stay
\* inside their 2-slot groups.
C17_PotBound ==
    \A p \in Players :
        /\ _pot[p] \in {0, 1}
        /\ 3 + _pot[p] \in 3..4
        /\ 5 + _pot[1 - p] \in 5..6

C17_Witness ==
    /\ hist = <<CHECK, BET, CALL>>
    /\ _pot = Pair(1, 1)
    /\ current_player = 1

\* C18 (payoff matches the pot): in every terminated state reached by
\* mask-legal play one seat has a positive reward, and that reward equals
\* 1 + the pot entry of the other seat.
C18_PayoffMatchesPot ==
    terminated =>
        /\ \E p \in Players : rewards[p] > 0
        /\ \A p \in Players : rewards[p] > 0 => rewards[p] = 1 + _pot[1 - p]

\* a fold: the winner has put in a chip and the loser has not
C18_Witness ==
    /\ hist = <<BET, FOLD>>
    /\ terminated
    /\ \E p \in Players :
          rewards[p] = 1 /\ _pot[p] = 1 /\ _pot[1 - p] = 0

\* the observation that encodes card c, own chips a and opponent's chips b
ObsOf(c, a, b) == [i \in 0..6 |-> i = c \/ i = 3 + a \/ i = 5 + b]

C20_NotLatched ==
    /\ [](\A a \in Actions, t \in BOOLEAN :
            \A r \in {Pair(0, 0), Pair(1, -1), Pair(-2, 2)} :
                _step([State EXCEPT !.terminated = t, !.rewards = r], a)
                    = _step(State, a))
    /\ [][(hist = <<CHECK, CHECK>> /\ terminated) =>
            /\ LegalSet(legal_action_mask) = {BET, CHECK}
            /\ Stepped(BET) => (~terminated' /\ rewards' = Pair(0, 0))
            /\ Stepped(CHECK) => (terminated' /\ rewards' = rewards)]_vars

C20_Witness ==
    /\ hist = <<CHECK, CHECK, BET>>
    /\ ~terminated
    /\ rewards = Pair(0, 0)
    /\ _pot[1 - current_player] = 1

====
